---------------------------- MODULE Spec2Model ----------------------------
(* A model of dataset_analyzer.py: the HealthDatasetAnalyzer class (loader *)
(* and six reporters over one in-memory table) and the main() driver that  *)
(* runs it over the hardcoded list of dataset files.                        *)
(*                                                                          *)
(* Numbers are exact: the table holds integers and derived ratio features   *)
(* are rationals <<num, den>>.  Where the outcome of a comparison the code  *)
(* makes on doubles depends on how the double was rounded (|r| > 0.3 for a  *)
(* Pearson r of exactly 3/10), the rounding is a choice of the action.      *)
EXTENDS Integers, Sequences, FiniteSets, TLC

VARIABLES
    pc,          \* position of main(): "loop", a stage of one dataset, "except", "done", "crashed"
    idx,         \* index in `datasets` of the dataset of the current iteration
    df,          \* self.df of the analyzer of the current iteration
    features_df, \* the table returned by analyze_clustering_features
    exc,         \* the exception in flight (NoExc when none)
    report,      \* what the reporters of the current analyzer computed and printed
    output,      \* the lines main() and the analyzer printed, as <<tag, dataset index>>
    calls,       \* history: the methods called so far, as [ds, stage, ok]
    ncalls,      \* SpecAPI: number of method calls made on the analyzer
    kn,          \* SpecKRange: the sample count n
    krange       \* SpecKRange: the recommended range [k_min, k_max]

vars == <<pc, idx, df, features_df, exc, report, output, calls, ncalls, kn, krange>>

-----------------------------------------------------------------------------
(* Bounds of the model *)

\* longest table generated from RowPool
MaxRecords == 3
\* longest table generated from RowPool in SpecAPI
MaxApiRecords == 2
\* most method calls on one analyzer in SpecAPI
MaxCalls == 3
\* largest sample count of SpecKRange
MaxN == 300

-----------------------------------------------------------------------------
(* Small arithmetic *)

Abs(x) == IF x < 0 THEN -x ELSE x

Max2(a, b) == IF a >= b THEN a ELSE b

Min2(a, b) == IF a <= b THEN a ELSE b

RECURSIVE GCD(_, _)
GCD(a, b) == IF b = 0 THEN Abs(a) ELSE GCD(b, a % b)

\* a rational num/den, den > 0, in lowest terms
Rat(n, d) ==
    LET s == IF d < 0 THEN -1 ELSE 1
        g == GCD(Abs(n), Abs(d))
    IN  <<(s * n) \div g, (s * d) \div g>>

RInt(n) == <<n, 1>>

RAdd(a, b) ==
    LET g == GCD(a[2], b[2])
    IN  Rat(a[1] * (b[2] \div g) + b[1] * (a[2] \div g), (a[2] \div g) * b[2])

RNeg(a) == <<-a[1], a[2]>>

RSub(a, b) == RAdd(a, RNeg(b))

\* a * (n/d) for integers n, d > 0
RScale(a, n, d) ==
    LET g1 == GCD(Abs(a[1]), d)
        g2 == GCD(Abs(n), a[2])
    IN  Rat((a[1] \div g1) * (n \div g2), (a[2] \div g2) * (d \div g1))

\* a/b < c/d for b, d > 0, by the continued-fraction expansions (no products)
RECURSIVE FracLess(_, _, _, _)
FracLess(a, b, c, d) ==
    LET qa == a \div b
        qc == c \div d
        ra == a % b
        rc == c % d
    IN  IF qa # qc THEN qa < qc
        ELSE IF rc = 0 THEN FALSE
        ELSE IF ra = 0 THEN TRUE
        ELSE FracLess(d, rc, b, ra)

RLess(a, b) == FracLess(a[1], a[2], b[1], b[2])

RECURSIVE SumSeq(_)
SumSeq(s) == IF s = << >> THEN 0 ELSE Head(s) + SumSeq(Tail(s))

-----------------------------------------------------------------------------
(* The table *)

InputCols == {"userId", "timestamp", "symptoms", "severity", "sleep", "stress",
              "exercise", "age", "gender", "medical_history"}

LoadDerivedCols == {"symptoms_parsed", "symptom_count", "timestamp_parsed"}

ReporterDerivedCols == {"age_group", "hour", "day_of_week", "month"}

DerivedCols == LoadDerivedCols \cup ReporterDerivedCols

\* self.df = None
NoneDF == [columns |-> {}, rows |-> << >>]

NoExc == [type |-> "None", line |-> 0, key |-> ""]

Raise(t, l, k) == [type |-> t, line |-> l, key |-> k]

\* the classes `except Exception` catches
ExceptionSubclasses == {"FileNotFoundError", "ParserError", "KeyError", "TypeError",
                        "ValueError", "ZeroDivisionError"}

\* df[name] = values, a column assignment: every row gets the column
SetColumn(d, name, values) ==
    [columns |-> d.columns \cup {name},
     rows |-> [i \in 1..Len(d.rows) |->
                 [c \in d.columns \cup {name} |->
                     IF c = name THEN values[i] ELSE d.rows[i][c]]]]

Column(d, name) == [i \in 1..Len(d.rows) |-> d.rows[i][name]]

-----------------------------------------------------------------------------
(* json.loads on a symptoms cell.  A cell is the sequence of the JSON tokens *)
(* of its text; the empty sequence is the empty cell, which read_csv turns   *)
(* into NaN (a float, which json.loads rejects with TypeError).              *)

StringTokens == {"\"fever\"", "\"cough\""}

NumberTokens == {"5"}

BoolTokens == {"true"}

\* the characters of the Python str a JSON string token decodes to, each as
\* the token of a str of length 1
Chars(tok) ==
    IF tok = "\"fever\"" THEN <<"\"f\"", "\"e\"", "\"v\"", "\"e\"", "\"r\"">>
    ELSE IF tok = "\"cough\"" THEN <<"\"c\"", "\"o\"", "\"u\"", "\"g\"", "\"h\"">>
    ELSE << >>

\* len() of the Python str a JSON string token decodes to
StrLen(tok) == Len(Chars(tok))

JList(items) == [kind |-> "list", items |-> items, text |-> ""]

JScalar(kind, tok) == [kind |-> kind, items |-> << >>, text |-> tok]

ParseFail == [ok |-> FALSE, val |-> JList(<< >>), next |-> 0]

RECURSIVE ParseValue(_, _)
RECURSIVE ParseElements(_, _, _)
\* one JSON value starting at token i: [ok, val, next]
ParseValue(toks, i) ==
    IF i > Len(toks) THEN ParseFail
    ELSE IF toks[i] = "[" THEN
        IF i + 1 <= Len(toks) /\ toks[i + 1] = "]"
        THEN [ok |-> TRUE, val |-> JList(<< >>), next |-> i + 2]
        ELSE ParseElements(toks, i + 1, << >>)
    ELSE IF toks[i] \in StringTokens
        THEN [ok |-> TRUE, val |-> JScalar("str", toks[i]), next |-> i + 1]
    ELSE IF toks[i] \in NumberTokens
        THEN [ok |-> TRUE, val |-> JScalar("num", toks[i]), next |-> i + 1]
    ELSE IF toks[i] \in BoolTokens
        THEN [ok |-> TRUE, val |-> JScalar("bool", toks[i]), next |-> i + 1]
    ELSE ParseFail

\* the elements of an array after "[", up to and including its "]"
ParseElements(toks, i, acc) ==
    LET v == ParseValue(toks, i)
    IN  IF ~v.ok \/ v.next > Len(toks) THEN ParseFail
        ELSE IF toks[v.next] = ","
            THEN ParseElements(toks, v.next + 1, Append(acc, v.val))
        ELSE IF toks[v.next] = "]"
            THEN [ok |-> TRUE, val |-> JList(Append(acc, v.val)), next |-> v.next + 1]
        ELSE ParseFail

\* json.loads: [ok, val]; not ok is JSONDecodeError (or TypeError on NaN)
json_loads(cell) ==
    LET v == ParseValue(cell, 1)
    IN  IF v.ok /\ v.next = Len(cell) + 1
        THEN [ok |-> TRUE, val |-> v.val]
        ELSE [ok |-> FALSE, val |-> JList(<< >>)]

\* _parse_symptoms on a cell [str, text] of the table: whatever json.loads
\* returns, [] when it raises (JSONDecodeError, or TypeError on a cell that
\* is no str)
_parse_symptoms(symptoms_str) ==
    LET r == json_loads(symptoms_str.text)
    IN  IF symptoms_str.str /\ r.ok THEN r.val ELSE JList(<< >>)

\* whether Python's len() accepts the value
HasLen(v) == v.kind \in {"list", "str"}

\* Python's len()
PyLen(v) == IF v.kind = "list" THEN Len(v.items) ELSE StrLen(v.text)

\* the elements iterating over a list or a str yields
Iterate(v) ==
    IF v.kind = "list" THEN v.items
    ELSE [k \in 1..StrLen(v.text) |-> JScalar("str", Chars(v.text)[k])]

\* whether hash() accepts the value: a list is unhashable
Hashable(v) == v.kind # "list"

-----------------------------------------------------------------------------
(* pd.to_datetime on a timestamp <<year, month, day, hour>> *)

IsLeap(y) == (y % 4 = 0 /\ y % 100 # 0) \/ y % 400 = 0

DaysInMonth(y, m) ==
    IF m = 2 THEN (IF IsLeap(y) THEN 29 ELSE 28)
    ELSE IF m \in {4, 6, 9, 11} THEN 30 ELSE 31

ValidTimestamp(t) ==
    /\ t[2] \in 1..12
    /\ t[3] >= 1 /\ t[3] <= DaysInMonth(t[1], t[2])
    /\ t[4] \in 0..23

\* Series.dt.day_name(), by Sakamoto's method
DayName(t) ==
    LET off == <<0, 3, 2, 5, 0, 3, 5, 1, 4, 6, 2, 4>>
        y == IF t[2] < 3 THEN t[1] - 1 ELSE t[1]
        w == (y + y \div 4 - y \div 100 + y \div 400 + off[t[2]] + t[3]) % 7
    IN  <<"Sunday", "Monday", "Tuesday", "Wednesday", "Thursday", "Friday",
          "Saturday">>[w + 1]

-----------------------------------------------------------------------------
(* load_dataset.  A file is [status, columns, rows]; the result is the table, *)
(* the exception raised (NoExc when none) and the tags printed.               *)

Loaded(d, e, out) == [df |-> d, exc |-> e, out |-> out]

IsNumberCell(cell) == Len(cell) = 1 /\ cell[1] \in NumberTokens

IsBoolCell(cell) == Len(cell) = 1 /\ cell[1] \in BoolTokens

\* read_csv's type inference on the cells of a column of text: the column
\* holds str only if its non-empty cells are neither all numbers nor all
\* booleans
HoldsText(cells) ==
    /\ \E i \in 1..Len(cells) : cells[i] # << >> /\ ~IsNumberCell(cells[i])
    /\ \E i \in 1..Len(cells) : cells[i] # << >> /\ ~IsBoolCell(cells[i])

\* pd.read_csv on a parseable file: the symptoms cells become [str, text],
\* str only in a column of text and only for a cell that is not empty (NaN)
read_csv(file) ==
    IF "symptoms" \notin file.columns
    THEN [columns |-> file.columns, rows |-> file.rows]
    ELSE LET text == HoldsText([i \in 1..Len(file.rows) |-> file.rows[i].symptoms])
         IN  [columns |-> file.columns,
              rows |-> [i \in 1..Len(file.rows) |->
                  [file.rows[i] EXCEPT !.symptoms =
                      [str |-> text /\ file.rows[i].symptoms # << >>,
                       text |-> file.rows[i].symptoms]]]]

load_dataset(file) ==
    IF file.status = "missing"
        THEN Loaded(NoneDF, Raise("FileNotFoundError", 27, ""), <<"ErrorLoading">>)
    ELSE IF file.status = "unparseable"
        THEN Loaded(NoneDF, Raise("ParserError", 27, ""), <<"ErrorLoading">>)
    ELSE
    LET d0 == read_csv(file)
        n == Len(d0.rows)
    IN  IF "symptoms" \notin d0.columns
            THEN Loaded(d0, Raise("KeyError", 31, "symptoms"), <<"Loaded", "ErrorLoading">>)
        ELSE
        LET d1 == SetColumn(d0, "symptoms_parsed",
                      [i \in 1..n |-> _parse_symptoms(d0.rows[i].symptoms)])
        IN  IF \E i \in 1..n : ~HasLen(d1.rows[i].symptoms_parsed)
                THEN Loaded(d1, Raise("TypeError", 32, ""), <<"Loaded", "ErrorLoading">>)
            ELSE
            LET d2 == SetColumn(d1, "symptom_count",
                          [i \in 1..n |-> PyLen(d1.rows[i].symptoms_parsed)])
            IN  IF "timestamp" \notin d2.columns
                    THEN Loaded(d2, Raise("KeyError", 35, "timestamp"),
                                <<"Loaded", "ErrorLoading">>)
                ELSE IF \E i \in 1..n : ~ValidTimestamp(d2.rows[i].timestamp)
                    THEN Loaded(d2, Raise("ValueError", 35, ""),
                                <<"Loaded", "ErrorLoading">>)
                ELSE
                LET d3 == SetColumn(d2, "timestamp_parsed",
                              [i \in 1..n |-> d2.rows[i].timestamp])
                IN  IF "userId" \notin d3.columns
                        THEN Loaded(d3, Raise("KeyError", 39, "userId"),
                                    <<"Loaded", "Overview", "ErrorLoading">>)
                    ELSE Loaded(d3, NoExc, <<"Loaded", "Overview">>)

-----------------------------------------------------------------------------
(* The reporters.  Each takes the table and returns the table as it leaves   *)
(* it, the exception it raised (NoExc when none) and what it reported.       *)

EmptyReport ==
    [no_symptoms |-> -1, max_symptoms |-> -1, most_common |-> << >>,
     age_dist |-> << >>,
     pairs |-> << >>, corr_rounding |-> {},
     hours |-> << >>, peak_hour |-> -1, low_hour |-> -1,
     k_min |-> -1, k_max |-> -1, scale_needed |-> << >>,
     outlier_counts |-> << >>, no_outliers |-> FALSE]

Result(d, e, rep) == [df |-> d, exc |-> e, report |-> rep]

\* the first column of the sequence that the table lacks, "" when it has all
RECURSIVE FirstMissing(_, _)
FirstMissing(d, cols) ==
    IF cols = << >> THEN ""
    ELSE IF Head(cols) \notin d.columns THEN Head(cols)
    ELSE FirstMissing(d, Tail(cols))

\* whether describe() of a numeric column has a 'mean': read_csv gives a
\* column without cells the dtype object, whose describe() has none
IsNumericDtype(d, col) == Len(d.rows) > 0

RECURSIVE SeqMax(_)
SeqMax(s) == IF Len(s) = 1 THEN s[1] ELSE Max2(Head(s), SeqMax(Tail(s)))

basic_numeric_cols == <<"severity", "sleep", "stress", "exercise", "age">>

\* lines 78-80: all_symptoms after extend() with every record's parsed value
RECURSIVE ExtendAll(_)
ExtendAll(parsed) ==
    IF parsed = << >> THEN << >>
    ELSE Iterate(Head(parsed)) \o ExtendAll(Tail(parsed))

\* Counter(elements) as <<element, count>> in the order of first occurrence
Counter(elements) ==
    LET first == {i \in 1..Len(elements) :
                    \A j \in 1..(i - 1) : elements[j] # elements[i]}
        keys == SelectSeq([i \in 1..Len(elements) |-> i], LAMBDA i : i \in first)
    IN  [k \in 1..Len(keys) |->
            <<elements[keys[k]],
              Cardinality({i \in 1..Len(elements) : elements[i] = elements[keys[k]]})>>]

\* an entry put into entries sorted by descending count, behind its equals
RECURSIVE InsertByCount(_, _)
InsertByCount(s, e) ==
    IF s = << >> THEN <<e>>
    ELSE IF Head(s)[2] < e[2] THEN <<e>> \o s
    ELSE <<Head(s)>> \o InsertByCount(Tail(s), e)

RECURSIVE SortByCount(_)
SortByCount(s) ==
    IF s = << >> THEN << >>
    ELSE InsertByCount(SortByCount(SubSeq(s, 1, Len(s) - 1)), s[Len(s)])

\* Counter.most_common(k): by descending count, equal counts in insertion order
most_common(counter, k) == SubSeq(SortByCount(counter), 1, Min2(k, Len(counter)))

analyze_basic_statistics(d, rep) ==
    LET n == Len(d.rows)
        present == SelectSeq(basic_numeric_cols, LAMBDA c : c \in d.columns)
    IN  IF \E i \in 1..Len(present) : ~IsNumericDtype(d, present[i])
            THEN Result(d, Raise("KeyError", 66, "mean"), rep)
        ELSE IF "symptom_count" \notin d.columns
            THEN Result(d, Raise("KeyError", 73, "symptom_count"), rep)
        ELSE
        LET rep1 == [rep EXCEPT
                        !.no_symptoms = Cardinality({i \in 1..n : d.rows[i].symptom_count = 0}),
                        !.max_symptoms = IF n = 0 THEN -1
                                         ELSE SeqMax(Column(d, "symptom_count"))]
        IN  IF "symptoms_parsed" \notin d.columns
                THEN Result(d, Raise("KeyError", 79, "symptoms_parsed"), rep1)
            ELSE
            LET all_symptoms == ExtendAll(Column(d, "symptoms_parsed"))
            IN  IF \E i \in 1..Len(all_symptoms) : ~Hashable(all_symptoms[i])
                    THEN Result(d, Raise("TypeError", 83, ""), rep1)
                ELSE Result(d, NoExc,
                        [rep1 EXCEPT !.most_common = most_common(Counter(all_symptoms), 10)])

age_bins == <<0, 25, 35, 45, 55, 65, 100>>

age_labels == <<"16-25", "26-35", "36-45", "46-55", "56-65", "65+">>

\* a bin closed on the right, as pd.cut makes it without right=False
InBinRightClosed(age, lo, hi) == lo < age /\ age <= hi

\* membership in a bin of pd.cut(..., right=False): closed on the left
InBin(age, lo, hi) == lo <= age /\ age < hi

\* pd.cut(age, bins=age_bins, labels=age_labels, right=False); "NaN" outside the bins
age_group_of(age) ==
    IF \E b \in 1..Len(age_labels) : InBin(age, age_bins[b], age_bins[b + 1])
    THEN age_labels[CHOOSE b \in 1..Len(age_labels) :
                        InBin(age, age_bins[b], age_bins[b + 1])]
    ELSE "NaN"

analyze_demographics(d, rep) ==
    LET n == Len(d.rows)
    IN  IF "age" \notin d.columns THEN Result(d, Raise("KeyError", 97, "age"), rep)
        ELSE
        LET d1 == SetColumn(d, "age_group", [i \in 1..n |-> age_group_of(d.rows[i].age)])
            dist == [b \in 1..Len(age_labels) |->
                        Cardinality({i \in 1..n : d1.rows[i].age_group = age_labels[b]})]
            rep1 == [rep EXCEPT !.age_dist = dist]
        IN  IF "age_group" \notin d1.columns
                THEN Result(d1, Raise("KeyError", 98, "age_group"), rep)
            \* value_counts() of the categorical column lists all six labels:
            \* on a table without records the first percentage is 0/0
            ELSE IF n = 0
                THEN Result(d1, Raise("ZeroDivisionError", 100, ""), rep)
            ELSE IF "gender" \notin d1.columns
                THEN Result(d1, Raise("KeyError", 104, "gender"), rep1)
            ELSE IF "medical_history" \notin d1.columns
                THEN Result(d1, Raise("KeyError", 110, "medical_history"), rep1)
            ELSE Result(d1, NoExc, rep1)

corr_numeric_cols == <<"severity", "sleep", "stress", "exercise", "age", "symptom_count">>

\* n*Sum(xy) - Sum(x)*Sum(y): the covariance of two integer columns, times n^2
CovN(x, y) ==
    LET n == Len(x)
    IN  n * SumSeq([i \in 1..n |-> x[i] * y[i]]) - SumSeq(x) * SumSeq(y)

\* |r| > 3/10 for the exact Pearson r of two integer columns; r is NaN, and
\* every comparison False, when a column is constant or has fewer than 2 cells.
\* |r| > 3/10 iff (10|cov|)^2 > (3 vx)(3 vy) iff 3vy / 10|cov| < 10|cov| / 3vx.
ExactCorrAboveThreshold(x, y) ==
    LET c == 10 * Abs(CovN(x, y))
        vx == 3 * CovN(x, x)
        vy == 3 * CovN(y, y)
    IN  /\ vx > 0 /\ vy > 0 /\ c > 0
        /\ FracLess(vy, c, c, vx)

\* |r| = 3/10 for the exact Pearson r of two integer columns
ExactCorrOnThreshold(x, y) ==
    LET c == 10 * Abs(CovN(x, y))
        vx == 3 * CovN(x, x)
        vy == 3 * CovN(y, y)
    IN  /\ vx > 0 /\ vy > 0 /\ c > 0
        /\ ~FracLess(vy, c, c, vx)
        /\ ~FracLess(c, vx, vy, c)

\* how the double that DataFrame.corr() computes lies to the exact r in
\* absolute value: below it, equal to it, above it.  The summation order of
\* the pandas build decides which.
Rounding == {-1, 0, 1}

\* abs(corr_val) > 0.3 on the double corr_val: the rounding error is far
\* smaller than the distance of any other r of a small table from 3/10, so
\* it decides the comparison only for an r of exactly 3/10
AbsCorrAboveThreshold(x, y, ulp) ==
    \/ ExactCorrAboveThreshold(x, y)
    \/ ExactCorrOnThreshold(x, y) /\ ulp = 1

\* the column pairs (i, j) a loop over the whole matrix visits
AllIndexPairs(n) ==
    LET k == n * n
    IN  [p \in 1..k |-> <<((p - 1) \div n) + 1, ((p - 1) % n) + 1>>]

\* the pairs of an inner loop that starts at i instead of i+1
UpperTriangleWithDiagonal(n) ==
    SelectSeq(AllIndexPairs(n), LAMBDA p : p[1] <= p[2])

\* the column pairs (i, j) the two loops visit, in order: i < j
UpperTriangle(n) ==
    SelectSeq(AllIndexPairs(n), LAMBDA p : p[1] < p[2])

\* the pairs of columns of the correlation matrix whose exact |r| is 3/10
OnThresholdPairs(d) ==
    IF FirstMissing(d, corr_numeric_cols) # "" THEN {}
    ELSE {p \in (1..Len(corr_numeric_cols)) \X (1..Len(corr_numeric_cols)) :
            /\ p[1] < p[2]
            /\ ExactCorrOnThreshold(Column(d, corr_numeric_cols[p[1]]),
                                    Column(d, corr_numeric_cols[p[2]]))}

\* fl gives the rounding of corr_val for every pair of OnThresholdPairs(d)
analyze_correlations(d, rep, fl) ==
    LET miss == FirstMissing(d, corr_numeric_cols)
    IN  IF miss # "" THEN Result(d, Raise("KeyError", 128, miss), rep)
        ELSE
        LET visited == UpperTriangle(Len(corr_numeric_cols))
            strong == SelectSeq(visited, LAMBDA p :
                          AbsCorrAboveThreshold(Column(d, corr_numeric_cols[p[1]]),
                                                Column(d, corr_numeric_cols[p[2]]),
                                                IF p \in DOMAIN fl THEN fl[p] ELSE 0))
        IN  Result(d, NoExc,
                [rep EXCEPT
                    !.pairs = [k \in 1..Len(strong) |->
                        <<corr_numeric_cols[strong[k][1]], corr_numeric_cols[strong[k][2]]>>],
                    !.corr_rounding =
                        {<<corr_numeric_cols[p[1]], corr_numeric_cols[p[2]], fl[p]>> :
                            p \in DOMAIN fl}])

_get_time_period(hour) ==
    IF 5 <= hour /\ hour < 8 THEN "early morning"
    ELSE IF 8 <= hour /\ hour < 12 THEN "morning"
    ELSE IF 12 <= hour /\ hour < 14 THEN "noon"
    ELSE IF 14 <= hour /\ hour < 17 THEN "afternoon"
    ELSE IF 17 <= hour /\ hour < 20 THEN "evening"
    ELSE "night"

\* the ascending sequence of a set of integers
RECURSIVE SortedSeqOf(_)
SortedSeqOf(S) ==
    IF S = {} THEN << >>
    ELSE LET m == CHOOSE x \in S : \A y \in S : x <= y
         IN  <<m>> \o SortedSeqOf(S \ {m})

\* groupby('hour')['severity'].mean() at one hour, as a rational
MeanSeverityAt(d, h) ==
    LET rows == {i \in 1..Len(d.rows) : d.rows[i].hour = h}
    IN  Rat(SumSeq([i \in 1..Len(d.rows) |->
                      IF i \in rows THEN d.rows[i].severity ELSE 0]),
            Cardinality(rows))

\* idxmax / idxmin over the hours in ascending order: the first occurrence wins
PeakHour(d, hours) ==
    CHOOSE k \in 1..Len(hours) :
        /\ \A j \in 1..Len(hours) :
               ~RLess(MeanSeverityAt(d, hours[k]), MeanSeverityAt(d, hours[j]))
        /\ \A j \in 1..(k - 1) :
               RLess(MeanSeverityAt(d, hours[j]), MeanSeverityAt(d, hours[k]))

LowHour(d, hours) ==
    CHOOSE k \in 1..Len(hours) :
        /\ \A j \in 1..Len(hours) :
               ~RLess(MeanSeverityAt(d, hours[j]), MeanSeverityAt(d, hours[k]))
        /\ \A j \in 1..(k - 1) :
               RLess(MeanSeverityAt(d, hours[k]), MeanSeverityAt(d, hours[j]))

\* the time features without the hour column
extract_time_features_without_hour(d) ==
    LET n == Len(d.rows)
        d2 == SetColumn(d, "day_of_week",
                        [i \in 1..n |-> DayName(d.rows[i].timestamp_parsed)])
    IN  SetColumn(d2, "month", [i \in 1..n |-> d2.rows[i].timestamp_parsed[2]])

\* lines 147-149: hour, day_of_week and month from timestamp_parsed
extract_time_features(d) ==
    LET n == Len(d.rows)
        d1 == SetColumn(d, "hour", [i \in 1..n |-> d.rows[i].timestamp_parsed[4]])
        d2 == SetColumn(d1, "day_of_week",
                        [i \in 1..n |-> DayName(d1.rows[i].timestamp_parsed)])
    IN  SetColumn(d2, "month", [i \in 1..n |-> d2.rows[i].timestamp_parsed[2]])

analyze_temporal_patterns(d, rep) ==
    LET n == Len(d.rows)
    IN  IF "timestamp_parsed" \notin d.columns
            THEN Result(d, Raise("KeyError", 147, "timestamp_parsed"), rep)
        ELSE
        LET d3 == extract_time_features(d)
        IN  IF "hour" \notin d3.columns
                THEN Result(d3, Raise("KeyError", 153, "hour"), rep)
            ELSE IF "day_of_week" \notin d3.columns
                THEN Result(d3, Raise("KeyError", 162, "day_of_week"), rep)
            ELSE
            LET hours == SortedSeqOf({d3.rows[i].hour : i \in 1..n})
                rep1 == [rep EXCEPT !.hours =
                            [k \in 1..Len(hours) |-> <<hours[k], _get_time_period(hours[k])>>]]
            IN  IF "severity" \notin d3.columns
                    THEN Result(d3, Raise("KeyError", 168, "severity"), rep1)
                ELSE IF n = 0
                    THEN Result(d3, Raise("ValueError", 169, ""), rep1)
                ELSE Result(d3, NoExc,
                        [rep1 EXCEPT !.peak_hour = hours[PeakHour(d3, hours)],
                                     !.low_hour = hours[LowHour(d3, hours)]])

-----------------------------------------------------------------------------
(* The clustering features: a separate table of rationals *)

base_feature_cols == <<"severity", "sleep", "stress", "exercise", "symptom_count", "age">>

feature_cols == base_feature_cols \o
    <<"sleep_stress_ratio", "exercise_severity_ratio", "lifestyle_score">>

NoFeatures == [columns |-> << >>, rows |-> << >>]

\* one row of features_df from one row of self.df
FeatureRow(r) ==
    [c \in {feature_cols[k] : k \in 1..Len(feature_cols)} |->
        IF c = "sleep_stress_ratio" THEN Rat(10 * r.sleep, 10 * r.stress + 1)
        ELSE IF c = "exercise_severity_ratio" THEN Rat(10 * r.exercise, 10 * r.severity + 1)
        ELSE IF c = "lifestyle_score"
            THEN Rat(10 * r.sleep + r.exercise - 10 * r.stress, 30)
        ELSE RInt(r[c])]

\* the derived features added to self.df itself instead of to features_df
analyze_clustering_features_in_place(d) ==
    LET miss == FirstMissing(d, base_feature_cols)
    IN  IF miss # ""
        THEN [df |-> d, exc |-> Raise("KeyError", 196, miss), features |-> NoFeatures]
        ELSE [df |-> SetColumn(d, "lifestyle_score",
                        [i \in 1..Len(d.rows) |-> FeatureRow(d.rows[i]).lifestyle_score]),
              exc |-> NoExc,
              features |-> [columns |-> feature_cols,
                            rows |-> [i \in 1..Len(d.rows) |-> FeatureRow(d.rows[i])]]]

\* the position of a column in a sequence of columns that holds it
IndexOf(cols, c) == CHOOSE k \in 1..Len(cols) : cols[k] = c

\* [df, exc, features]: self.df is only read; the dict of line 195 reads one
\* column per line, from line 196 on
analyze_clustering_features(d) ==
    LET miss == FirstMissing(d, base_feature_cols)
    IN  IF miss # ""
        THEN [df |-> d,
              exc |-> Raise("KeyError", 195 + IndexOf(base_feature_cols, miss), miss),
              features |-> NoFeatures]
        ELSE [df |-> d, exc |-> NoExc,
              features |-> [columns |-> feature_cols,
                            rows |-> [i \in 1..Len(d.rows) |-> FeatureRow(d.rows[i])]]]

-----------------------------------------------------------------------------
(* generate_clustering_recommendations *)

\* int(np.sqrt(num/den)): the largest k with k*k <= num/den, searched upwards
RECURSIVE FloorSqrtFrom(_, _, _)
FloorSqrtFrom(num, den, k) ==
    IF den * (k + 1) * (k + 1) > num THEN k ELSE FloorSqrtFrom(num, den, k + 1)

FloorSqrt(num, den) == FloorSqrtFrom(num, den, 0)

\* int(np.sqrt(n)/2), what misplacing the division of k_min would compute
k_min_halved_root(n_samples) == Max2(2, FloorSqrt(n_samples, 4))

k_min_of(n_samples) == Max2(2, FloorSqrt(n_samples, 2))

\* min(10, int(np.sqrt(n))) without the cap of 10
k_max_uncapped(n_samples) == FloorSqrt(n_samples, 1)

k_max_of(n_samples) == Min2(10, FloorSqrt(n_samples, 1))

\* a sequence of rationals in ascending order (insertion sort)
RECURSIVE InsertSorted(_, _)
InsertSorted(s, v) ==
    IF s = << >> THEN <<v>>
    ELSE IF RLess(v, Head(s)) THEN <<v>> \o s
    ELSE <<Head(s)>> \o InsertSorted(Tail(s), v)

RECURSIVE SortRats(_)
SortRats(s) == IF s = << >> THEN << >> ELSE InsertSorted(SortRats(Tail(s)), Head(s))

\* Series.quantile(quarters/4) with linear interpolation, on a non-empty column
Quantile(col, quarters) ==
    LET s == SortRats(col)
        h == quarters * (Len(s) - 1)
        lo == h \div 4
        r == h % 4
    IN  IF r = 0 THEN s[lo + 1]
        ELSE RAdd(s[lo + 1], RScale(RSub(s[lo + 2], s[lo + 1]), r, 4))

\* the fences [lower, upper] of a non-empty column
Fences(col) ==
    LET Q1 == Quantile(col, 1)
        Q3 == Quantile(col, 3)
        IQR == RSub(Q3, Q1)
    IN  [lower |-> RSub(Q1, RScale(IQR, 3, 2)), upper |-> RAdd(Q3, RScale(IQR, 3, 2))]

\* an outlier test that counts a value on a fence too
IsOutlierInclusive(v, f) == ~RLess(f.lower, v) \/ ~RLess(v, f.upper)

\* (value < Q1 - 1.5 * IQR) | (value > Q3 + 1.5 * IQR)
IsOutlier(v, f) == RLess(v, f.lower) \/ RLess(f.upper, v)

\* the outlier count of one column; the quantiles of an empty column are NaN
OutlierCount(col) ==
    IF Len(col) = 0 THEN 0
    ELSE Cardinality({i \in 1..Len(col) : IsOutlier(col[i], Fences(col))})

FeatureColumn(f, name) == [i \in 1..Len(f.rows) |-> f.rows[i][name]]

\* col_range > 10; max and min of an empty column are NaN
NeedsScaling(col) ==
    /\ Len(col) > 0
    /\ LET s == SortRats(col)
       IN  RLess(RInt(10), RSub(s[Len(s)], s[1]))

generate_clustering_recommendations(f, rep) ==
    LET n_samples == Len(f.rows)
        counts == [k \in 1..Len(f.columns) |-> OutlierCount(FeatureColumn(f, f.columns[k]))]
    IN  [rep EXCEPT
            !.k_min = k_min_of(n_samples),
            !.k_max = k_max_of(n_samples),
            !.scale_needed = SelectSeq(f.columns,
                                 LAMBDA c : NeedsScaling(FeatureColumn(f, c))),
            !.outlier_counts = counts,
            !.no_outliers = (SumSeq(counts) = 0)]

-----------------------------------------------------------------------------
(* The dataset files the model reads *)

Row(u, t, sy, sev, sl, st, ex, ag, g, mh) ==
    [userId |-> u, timestamp |-> t, symptoms |-> sy, severity |-> sev, sleep |-> sl,
     stress |-> st, exercise |-> ex, age |-> ag, gender |-> g, medical_history |-> mh]

CellFever == <<"[", "\"fever\"", "]">>

CellFeverCough == <<"[", "\"fever\"", ",", "\"cough\"", "]">>

\* ["fever"  : the closing bracket is missing
CellUnclosed == <<"[", "\"fever\"">>

\* the empty cell
CellEmpty == << >>

\* 5 : valid JSON that is no list
CellNumber == <<"5">>

\* [["fever"],"cough"]
CellNested == <<"[", "[", "\"fever\"", "]", ",", "\"cough\"", "]">>

\* ["fever",] : a trailing comma
CellTrailingComma == <<"[", "\"fever\"", ",", "]">>

\* "fever" : a JSON string
CellString == <<"\"fever\"">>

\* [fever] : an unquoted word
CellBareWord == <<"[", "fever", "]">>

RowPool ==
    << Row("u1", <<2024, 1, 15, 8>>, CellFever, 5, 7, 4, 30, 24, "male", "none"),
       Row("u2", <<2024, 6, 3, 14>>, CellFeverCough, 8, 5, 7, 10, 25, "female", "diabetes"),
       Row("u1", <<2024, 12, 25, 22>>, CellUnclosed, 3, 8, 2, 45, 100, "female", "none"),
       Row("u3", <<2025, 2, 28, 8>>, CellEmpty, 5, 6, 4, 0, 99, "male", "hypertension"),
       Row("u2", <<2024, 2, 29, 0>>, CellNumber, 2, 4, 9, 20, 40, "female", "none") >>

\* the tables of at most n rows drawn from the pool
RECURSIVE TablesUpTo(_)
TablesUpTo(n) ==
    IF n = 0 THEN {<< >>}
    ELSE LET shorter == TablesUpTo(n - 1)
         IN  shorter \cup {Append(t, RowPool[k]) : t \in shorter, k \in 1..Len(RowPool)}

\* exercise is the column 1,2,2,3,3,3,4,4,100; the ages sit on the bin edges
OutlierTable ==
    << Row("u1", <<2024, 3, 1, 5>>, CellFever, 5, 7, 4, 1, 0, "male", "none"),
       Row("u1", <<2024, 3, 2, 7>>, CellFever, 5, 7, 4, 2, 34, "male", "none"),
       Row("u2", <<2024, 3, 3, 8>>, CellFeverCough, 5, 7, 4, 2, 35, "female", "asthma"),
       Row("u2", <<2024, 3, 4, 11>>, CellFever, 5, 7, 4, 3, 44, "female", "asthma"),
       Row("u3", <<2024, 3, 5, 12>>, CellEmpty, 5, 7, 4, 3, 45, "male", "none"),
       Row("u3", <<2024, 3, 6, 13>>, CellFever, 5, 7, 4, 3, 54, "male", "none"),
       Row("u4", <<2024, 3, 7, 17>>, CellFever, 5, 7, 4, 4, 55, "female", "none"),
       Row("u4", <<2024, 3, 8, 19>>, CellFever, 5, 7, 4, 4, 64, "female", "none"),
       Row("u5", <<2024, 3, 9, 20>>, CellFever, 5, 7, 4, 100, 65, "male", "none") >>

\* severity and sleep have Pearson r = 3/10 exactly; severity and exercise
\* correlate strongly, sleep and exercise weakly
ThresholdTable ==
    << Row("u1", <<2024, 4, 1, 9>>, CellFever, 0, 0, 3, 10, 30, "male", "none"),
       Row("u2", <<2024, 4, 1, 9>>, CellFever, 1, 3, 3, 11, 30, "female", "none"),
       Row("u3", <<2024, 4, 2, 16>>, CellFever, 4, 1, 3, 14, 30, "male", "none"),
       Row("u4", <<2024, 4, 2, 16>>, CellFever, 3, 4, 3, 12, 30, "female", "none") >>

\* sleep is 1,2,3,4,7: its largest value lies on the upper fence
FenceTable ==
    << Row("u1", <<2024, 5, 1, 4>>, CellString, 2, 1, 1, 5, -1, "male", "none"),
       Row("u2", <<2024, 5, 2, 6>>, CellFeverCough, 4, 2, 1, 6, 100, "female", "none"),
       Row("u3", <<2024, 5, 3, 23>>, CellTrailingComma, 6, 3, 1, 7, 99, "male", "none"),
       Row("u4", <<2024, 5, 4, 6>>, CellBareWord, 8, 4, 1, 8, 24, "female", "none"),
       Row("u5", <<2024, 5, 5, 4>>, << "[", "]" >>, 9, 7, 1, 9, 25, "male", "none") >>

\* month 13 and 30 February: pd.to_datetime rejects both
BadTimestampTable ==
    << Row("u1", <<2024, 13, 1, 8>>, CellFever, 5, 7, 4, 30, 24, "male", "none"),
       Row("u2", <<2023, 2, 29, 8>>, CellFever, 5, 7, 4, 30, 24, "male", "none") >>

\* a symptoms cell that holds a list within the list
NestedTable ==
    << Row("u1", <<2024, 7, 1, 10>>, CellFever, 5, 7, 4, 30, 24, "male", "none"),
       Row("u2", <<2024, 7, 2, 15>>, CellNested, 8, 5, 7, 10, 25, "female", "diabetes") >>

FixtureTables == {OutlierTable, ThresholdTable, FenceTable, BadTimestampTable, NestedTable}

OkFile(cols, rows) ==
    [status |-> "ok", columns |-> cols,
     rows |-> [i \in 1..Len(rows) |-> [c \in cols |-> rows[i][c]]]]

MissingFile == [status |-> "missing", columns |-> {}, rows |-> << >>]

UnparseableFile == [status |-> "unparseable", columns |-> {}, rows |-> << >>]

\* the column sets of a CSV that lacks columns
ReducedSchemas ==
    {InputCols \ {c} : c \in InputCols}
        \cup {InputCols \ {"severity", "sleep", "stress", "exercise", "age"}}

\* the files main() may find at a dataset path
Files ==
    {MissingFile, UnparseableFile}
        \cup {OkFile(InputCols, t) : t \in TablesUpTo(MaxRecords) \cup FixtureTables}
        \cup {OkFile(cols, t) : cols \in ReducedSchemas, t \in TablesUpTo(1)}

\* the files an analyzer is constructed on in SpecAPI: tables with rows
ApiFiles ==
    {OkFile(cols, t) : cols \in {InputCols} \cup ReducedSchemas,
                       t \in (TablesUpTo(MaxApiRecords) \ {<< >>})
                                \cup {FenceTable, NestedTable}}

-----------------------------------------------------------------------------
(* main(): the loop over the hardcoded list of datasets *)

datasets == <<"training_dataset.csv", "enhanced_training_dataset.csv">>

\* the reporters of generate_report, in the order it calls them
Stages == <<"basic", "demographics", "correlations", "temporal", "features", "recommend">>

NoRange == [k_min |-> -1, k_max |-> -1]

Printed(tags, ds) == [k \in 1..Len(tags) |-> <<tags[k], ds>>]

Called(stage, e) == Append(calls, [ds |-> idx, stage |-> stage, ok |-> (e = NoExc)])

otherVars == <<ncalls, kn, krange>>

Init ==
    /\ pc = "loop"
    /\ idx = 1
    /\ df = NoneDF
    /\ features_df = NoFeatures
    /\ exc = NoExc
    /\ report = EmptyReport
    /\ output = <<<<"Banner", 0>>>>
    /\ calls = << >>
    /\ ncalls = 0
    /\ kn = 0
    /\ krange = NoRange

\* lines 331-336: the iteration's banner, then HealthDatasetAnalyzer(dataset)
Construct ==
    /\ pc = "loop"
    /\ idx <= Len(datasets)
    /\ \E file \in Files :
        LET r == load_dataset(file)
        IN  /\ df' = r.df
            /\ exc' = r.exc
            /\ output' = output \o Printed(<<"ANALYZING">> \o r.out, idx)
            /\ calls' = Called("load", r.exc)
            /\ pc' = IF r.exc = NoExc THEN "basic" ELSE "except"
    /\ UNCHANGED <<idx, features_df, report, otherVars>>

\* a generate_report that isolates its reporters: it goes on after a failure
AfterIsolated(e, next) == next

\* where generate_report goes after a reporter: the next one, or out by the exception
After(e, next) == IF e = NoExc THEN next ELSE "except"

\* lines 285-290
AnalyzeBasicStatistics ==
    /\ pc = "basic"
    /\ LET r == analyze_basic_statistics(df, report)
       IN  /\ df' = r.df
           /\ report' = r.report
           /\ exc' = r.exc
           /\ calls' = Called("basic", r.exc)
           /\ pc' = After(r.exc, "demographics")
    /\ output' = output \o Printed(<<"REPORT", "BASIC STATISTICS">>, idx)
    /\ UNCHANGED <<idx, features_df, otherVars>>

\* line 291
AnalyzeDemographics ==
    /\ pc = "demographics"
    /\ LET r == analyze_demographics(df, report)
       IN  /\ df' = r.df
           /\ report' = r.report
           /\ exc' = r.exc
           /\ calls' = Called("demographics", r.exc)
           /\ pc' = After(r.exc, "correlations")
    /\ output' = output \o Printed(<<"DEMOGRAPHICS ANALYSIS">>, idx)
    /\ UNCHANGED <<idx, features_df, otherVars>>

\* line 292
AnalyzeCorrelations ==
    /\ pc = "correlations"
    /\ \E fl \in [OnThresholdPairs(df) -> Rounding] :
        LET r == analyze_correlations(df, report, fl)
        IN  /\ df' = r.df
            /\ report' = r.report
            /\ exc' = r.exc
            /\ calls' = Called("correlations", r.exc)
            /\ pc' = After(r.exc, "temporal")
    /\ output' = output \o Printed(<<"CORRELATION ANALYSIS">>, idx)
    /\ UNCHANGED <<idx, features_df, otherVars>>

\* line 293
AnalyzeTemporalPatterns ==
    /\ pc = "temporal"
    /\ LET r == analyze_temporal_patterns(df, report)
       IN  /\ df' = r.df
           /\ report' = r.report
           /\ exc' = r.exc
           /\ calls' = Called("temporal", r.exc)
           /\ pc' = After(r.exc, "features")
    /\ output' = output \o Printed(<<"TEMPORAL ANALYSIS">>, idx)
    /\ UNCHANGED <<idx, features_df, otherVars>>

\* line 294
AnalyzeClusteringFeatures ==
    /\ pc = "features"
    /\ LET r == analyze_clustering_features(df)
       IN  /\ df' = r.df
           /\ features_df' = r.features
           /\ exc' = r.exc
           /\ calls' = Called("features", r.exc)
           /\ pc' = After(r.exc, "recommend")
    /\ output' = output \o Printed(<<"CLUSTERING FEATURES ANALYSIS">>, idx)
    /\ UNCHANGED <<idx, report, otherVars>>

\* line 295
GenerateClusteringRecommendations ==
    /\ pc = "recommend"
    /\ report' = generate_clustering_recommendations(features_df, report)
    /\ calls' = Called("recommend", NoExc)
    /\ pc' = "summary"
    /\ output' = output \o Printed(<<"CLUSTERING RECOMMENDATIONS">>, idx)
    /\ UNCHANGED <<idx, df, features_df, exc, otherVars>>

\* the analyzer and its results are not used after their iteration
Discard ==
    /\ df' = NoneDF
    /\ features_df' = NoFeatures
    /\ report' = EmptyReport

\* lines 297-317 and 339: the closing section, the return, "Analysis complete"
CompleteReport ==
    /\ pc = "summary"
    /\ output' = output \o Printed(<<"FINAL RECOMMENDATIONS", "AnalysisComplete">>, idx)
    /\ idx' = idx + 1
    /\ pc' = "loop"
    /\ Discard
    /\ UNCHANGED <<exc, calls, otherVars>>

\* an except clause list that has lost its `except Exception`
HandlerWithoutCatchAll(e) ==
    IF e.type = "FileNotFoundError" THEN "NotFound" ELSE "propagate"

\* lines 341-344: which except clause takes the exception
Handler(e) ==
    IF e.type = "FileNotFoundError" THEN "NotFound"
    ELSE IF e.type \in ExceptionSubclasses THEN "ErrorAnalyzing"
    ELSE "propagate"

HandleException ==
    /\ pc = "except"
    /\ IF Handler(exc) = "propagate"
       THEN /\ pc' = "crashed"
            /\ UNCHANGED <<idx, exc, output>>
       ELSE /\ output' = Append(output, <<Handler(exc), idx>>)
            /\ exc' = NoExc
            /\ idx' = idx + 1
            /\ pc' = "loop"
    /\ Discard
    /\ UNCHANGED <<calls, otherVars>>

\* lines 346-347
Finish ==
    /\ pc = "loop"
    /\ idx > Len(datasets)
    /\ output' = Append(output, <<"DatasetAnalysisComplete", 0>>)
    /\ pc' = "done"
    /\ UNCHANGED <<idx, df, features_df, exc, report, calls, otherVars>>

Next ==
    \/ Construct
    \/ AnalyzeBasicStatistics
    \/ AnalyzeDemographics
    \/ AnalyzeCorrelations
    \/ AnalyzeTemporalPatterns
    \/ AnalyzeClusteringFeatures
    \/ GenerateClusteringRecommendations
    \/ CompleteReport
    \/ HandleException
    \/ Finish

Spec == Init /\ [][Next]_vars

-----------------------------------------------------------------------------
(* SpecAPI: a caller that constructs one analyzer and then calls its public *)
(* reporting methods in any order, catching what they raise.  `report` is  *)
(* what the last call reported, `exc` what it raised.                       *)

InitAPI ==
    /\ pc = "api_new"
    /\ idx = 1
    /\ df = NoneDF
    /\ features_df = NoFeatures
    /\ exc = NoExc
    /\ report = EmptyReport
    /\ output = << >>
    /\ calls = << >>
    /\ ncalls = 0
    /\ kn = 0
    /\ krange = NoRange

\* the call just made
LastCall(stage, e) == <<[ds |-> idx, stage |-> stage, ok |-> (e = NoExc)]>>

ApiConstruct ==
    /\ pc = "api_new"
    /\ \E file \in ApiFiles :
        LET r == load_dataset(file)
        IN  /\ df' = r.df
            /\ exc' = r.exc
            /\ calls' = LastCall("load", r.exc)
            /\ pc' = IF r.exc = NoExc THEN "api_ready" ELSE "api_failed"
    /\ UNCHANGED <<idx, features_df, report, output, ncalls, kn, krange>>

ApiCallable ==
    /\ pc = "api_ready"
    /\ ncalls < MaxCalls
    /\ ncalls' = ncalls + 1
    /\ UNCHANGED <<pc, idx, output, kn, krange>>

ApiBasicStatistics ==
    /\ ApiCallable
    /\ LET r == analyze_basic_statistics(df, EmptyReport)
       IN  /\ df' = r.df
           /\ report' = r.report
           /\ exc' = r.exc
           /\ calls' = LastCall("basic", r.exc)
    /\ UNCHANGED features_df

ApiDemographics ==
    /\ ApiCallable
    /\ LET r == analyze_demographics(df, EmptyReport)
       IN  /\ df' = r.df
           /\ report' = r.report
           /\ exc' = r.exc
           /\ calls' = LastCall("demographics", r.exc)
    /\ UNCHANGED features_df

ApiCorrelations ==
    /\ ApiCallable
    /\ \E fl \in [OnThresholdPairs(df) -> Rounding] :
        LET r == analyze_correlations(df, EmptyReport, fl)
        IN  /\ df' = r.df
            /\ report' = r.report
            /\ exc' = r.exc
            /\ calls' = LastCall("correlations", r.exc)
    /\ UNCHANGED features_df

ApiTemporalPatterns ==
    /\ ApiCallable
    /\ LET r == analyze_temporal_patterns(df, EmptyReport)
       IN  /\ df' = r.df
           /\ report' = r.report
           /\ exc' = r.exc
           /\ calls' = LastCall("temporal", r.exc)
    /\ UNCHANGED features_df

\* a call that raises returns no table: the caller keeps the one it had
ApiClusteringFeatures ==
    /\ ApiCallable
    /\ LET r == analyze_clustering_features(df)
       IN  /\ df' = r.df
           /\ features_df' = IF r.exc = NoExc THEN r.features ELSE features_df
           /\ exc' = r.exc
           /\ calls' = LastCall("features", r.exc)
    /\ report' = EmptyReport

\* on a table that analyze_clustering_features returned earlier
ApiClusteringRecommendations ==
    /\ ApiCallable
    /\ features_df # NoFeatures
    /\ report' = generate_clustering_recommendations(features_df, EmptyReport)
    /\ exc' = NoExc
    /\ calls' = LastCall("recommend", NoExc)
    /\ UNCHANGED <<df, features_df>>

NextAPI ==
    \/ ApiConstruct
    \/ ApiBasicStatistics
    \/ ApiDemographics
    \/ ApiCorrelations
    \/ ApiTemporalPatterns
    \/ ApiClusteringFeatures
    \/ ApiClusteringRecommendations

SpecAPI == InitAPI /\ [][NextAPI]_vars

-----------------------------------------------------------------------------
(* SpecKRange: the K range of generate_clustering_recommendations as a  *)
(* function of the sample count alone                                    *)

InitKRange ==
    /\ pc = "k_new"
    /\ idx = 1
    /\ df = NoneDF
    /\ features_df = NoFeatures
    /\ exc = NoExc
    /\ report = EmptyReport
    /\ output = << >>
    /\ calls = << >>
    /\ ncalls = 0
    /\ kn \in 0..MaxN
    /\ krange = NoRange

\* lines 233-235
RecommendKRange ==
    /\ pc = "k_new"
    /\ krange' = [k_min |-> k_min_of(kn), k_max |-> k_max_of(kn)]
    /\ pc' = "k_done"
    /\ UNCHANGED <<idx, df, features_df, exc, report, output, calls, ncalls, kn>>

NextKRange == RecommendKRange

SpecKRange == InitKRange /\ [][NextKRange]_vars

-----------------------------------------------------------------------------
(* Properties of main() and generate_report, under Spec *)

\* the datasets of the "ANALYZING" banners printed so far, in print order
Attempts ==
    LET lines == SelectSeq(output, LAMBDA l : l[1] = "ANALYZING")
    IN  [k \in 1..Len(lines) |-> lines[k][2]]

\* the calls made on the analyzer of dataset k, in call order
CallsOf(k) == SelectSeq(calls, LAMBDA c : c.ds = k)

Failed(k) == \E j \in 1..Len(CallsOf(k)) : ~CallsOf(k)[j].ok

\* main() has finished with dataset k
Finished(k) == k < idx

\* C1: main() attempts every dataset of the list exactly once and in list
\* order whatever happened to the datasets before it; a failure of a dataset
\* is caught and printed (one line for it), the loop goes on to the next
\* dataset, and main() ends normally: no exception leaves it, and at its end
\* every dataset has been attempted and no exception is pending.
C1_EveryDatasetAttemptedOnce ==
    /\ pc # "crashed"
    /\ \A k \in 1..Len(Attempts) : Attempts[k] = k
    /\ Len(Attempts) = (IF pc = "loop" \/ pc = "done" THEN idx - 1 ELSE idx)
    /\ \A k \in 1..Len(datasets) :
           Finished(k) /\ Failed(k) =>
               Len(SelectSeq(output, LAMBDA l :
                       l[2] = k /\ l[1] \in {"NotFound", "ErrorAnalyzing"})) = 1
    /\ pc = "done" => Len(Attempts) = Len(datasets) /\ exc = NoExc

\* main() has ended after the first dataset failed with an exception that is
\* not FileNotFoundError and the second dataset was analysed completely
C1_Witness ==
    /\ pc = "done"
    /\ Failed(1)
    /\ \E j \in 1..Len(output) : output[j] = <<"ErrorAnalyzing", 1>>
    /\ \E j \in 1..Len(output) : output[j] = <<"AnalysisComplete", 2>>

AllStages == <<"load">> \o Stages

\* C2: within one dataset the stages run in the order load, basic statistics,
\* demographics, correlations, temporal patterns, clustering features,
\* recommendations; the first stage that fails is the last stage of that
\* dataset (after a failed load no reporter runs); and "Analysis complete" is
\* printed for a dataset if and only if the load and all six reporters succeeded.
C2_StagesInOrderFirstFailureAborts ==
    \A k \in 1..Len(datasets) :
        LET cs == CallsOf(k)
            complete == \E j \in 1..Len(output) : output[j] = <<"AnalysisComplete", k>>
            allOk == Len(cs) = Len(AllStages) /\ \A j \in 1..Len(cs) : cs[j].ok
        IN  /\ Len(cs) <= Len(AllStages)
            /\ \A j \in 1..Len(cs) : cs[j].stage = AllStages[j]
            /\ \A j \in 1..(Len(cs) - 1) : cs[j].ok
            /\ complete => allOk
            /\ Finished(k) => (complete <=> allOk)

\* main() has ended; the first dataset was loaded and failed in
\* analyze_demographics, the second dataset failed to load
C2_Witness ==
    /\ pc = "done"
    /\ Len(CallsOf(1)) = 3 /\ ~CallsOf(1)[3].ok
    /\ Len(CallsOf(2)) = 1 /\ ~CallsOf(2)[1].ok
    /\ ~\E j \in 1..Len(output) : output[j][1] = "AnalysisComplete"

\* C3: after load_dataset every record's symptom_count is the length of its
\* parsed symptom list, a record whose symptoms field is malformed JSON gets
\* the empty list and count 0, and the symptoms field never makes the load
\* raise an error.
C3_SymptomsNeverFailTheLoad ==
    /\ ~(exc.type = "TypeError" /\ exc.line = 32)
    /\ "symptom_count" \in df.columns =>
           \A i \in 1..Len(df.rows) :
               /\ df.rows[i].symptoms_parsed.kind = "list"
               /\ df.rows[i].symptom_count = Len(df.rows[i].symptoms_parsed.items)
               /\ ~json_loads(df.rows[i].symptoms.text).ok =>
                      /\ df.rows[i].symptoms_parsed = JList(<< >>)
                      /\ df.rows[i].symptom_count = 0

\* the label the six right-open bins give an age; "NaN" for an age in no bin
ExpectedAgeGroup(age) ==
    IF 0 <= age /\ age < 25 THEN "16-25"
    ELSE IF 25 <= age /\ age < 35 THEN "26-35"
    ELSE IF 35 <= age /\ age < 45 THEN "36-45"
    ELSE IF 45 <= age /\ age < 55 THEN "46-55"
    ELSE IF 55 <= age /\ age < 65 THEN "56-65"
    ELSE IF 65 <= age /\ age < 100 THEN "65+"
    ELSE "NaN"

\* C4: analyze_demographics puts every age into the one right-open bin that
\* contains it, [0,25) "16-25", [25,35) "26-35", [35,45) "36-45", [45,55)
\* "46-55", [55,65) "56-65", [65,100) "65+"; an age of 100 or more, or below
\* 0, gets no bucket and is counted in no age group of the distribution.
C4_AgeBuckets ==
    "age_group" \in df.columns =>
        /\ \A i \in 1..Len(df.rows) :
               df.rows[i].age_group = ExpectedAgeGroup(df.rows[i].age)
        /\ Len(report.age_dist) = 6
        /\ \A b \in 1..6 :
               report.age_dist[b] = Cardinality({i \in 1..Len(df.rows) :
                   age_bins[b] <= df.rows[i].age /\ df.rows[i].age < age_bins[b + 1]})
        /\ SumSeq(report.age_dist) = Cardinality({i \in 1..Len(df.rows) :
               0 <= df.rows[i].age /\ df.rows[i].age < 100})

\* analyze_demographics has run on a table with the ages 24, 25, 99, 100 and -1
C4_Witness ==
    /\ "age_group" \in df.columns
    /\ \E i \in 1..Len(df.rows) : df.rows[i].age = 24 /\ df.rows[i].age_group = "16-25"
    /\ \E i \in 1..Len(df.rows) : df.rows[i].age = 25 /\ df.rows[i].age_group = "26-35"
    /\ \E i \in 1..Len(df.rows) : df.rows[i].age = 99 /\ df.rows[i].age_group = "65+"
    /\ \E i \in 1..Len(df.rows) : df.rows[i].age = 100 /\ df.rows[i].age_group = "NaN"
    /\ \E i \in 1..Len(df.rows) : df.rows[i].age = -1 /\ df.rows[i].age_group = "NaN"
    /\ SumSeq(report.age_dist) = Len(df.rows) - 2

\* analyze_correlations of the current analyzer has just returned
CorrelationsDone == pc = "temporal"

CorrFeatures == {corr_numeric_cols[k] : k \in 1..Len(corr_numeric_cols)}

Reported(a, b) == \E k \in 1..Len(report.pairs) : report.pairs[k] = <<a, b>>

\* the direction in which the computed corr_val of a pair was rounded, 0
\* for a pair whose rounding decides nothing
RoundingOf(a, b) ==
    IF \E t \in report.corr_rounding : t[1] = a /\ t[2] = b
    THEN (CHOOSE t \in report.corr_rounding : t[1] = a /\ t[2] = b)[3]
    ELSE IF \E t \in report.corr_rounding : t[1] = b /\ t[2] = a
    THEN (CHOOSE t \in report.corr_rounding : t[1] = b /\ t[2] = a)[3]
    ELSE 0

\* |corr_val| > 0.3 for the computed corr_val of two columns of the table
ComputedAbove(a, b) ==
    \/ ExactCorrAboveThreshold(Column(df, a), Column(df, b))
    \/ /\ ExactCorrOnThreshold(Column(df, a), Column(df, b))
       /\ RoundingOf(a, b) = 1

\* |corr_val| = 0.3 for the computed corr_val of two columns of the table
ComputedOnThreshold(a, b) ==
    /\ ExactCorrOnThreshold(Column(df, a), Column(df, b))
    /\ RoundingOf(a, b) = 0

\* C5: analyze_correlations reports an unordered pair of distinct features if
\* and only if |corr| > 0.3 for the correlation it computed (a pair whose
\* computed |corr| is exactly 0.3 is not reported), reports each such pair
\* exactly once, never in both orders, and never reports a feature paired
\* with itself.
C5_CorrelationPairs ==
    CorrelationsDone =>
        /\ \A a, b \in CorrFeatures :
               a # b =>
                   /\ (Reported(a, b) \/ Reported(b, a)) <=> ComputedAbove(a, b)
                   /\ ~(Reported(a, b) /\ Reported(b, a))
                   /\ ComputedOnThreshold(a, b) => ~Reported(a, b) /\ ~Reported(b, a)
        /\ \A a \in CorrFeatures : ~Reported(a, a)
        /\ \A j, k \in 1..Len(report.pairs) :
               report.pairs[j] = report.pairs[k] => j = k

\* correlations were reported for a table in which severity and exercise
\* correlate (reported) and the computed correlation of severity and sleep
\* is 0.3 exactly (not reported)
C5_Witness ==
    /\ CorrelationsDone
    /\ Reported("severity", "exercise")
    /\ ComputedOnThreshold("severity", "sleep")
    /\ ~Reported("severity", "sleep")

\* the exact r of severity and sleep is 3/10, the double computed for it
\* lies above 0.3, and the pair is reported
CorrRoundedAboveThreshold ==
    /\ CorrelationsDone
    /\ ExactCorrOnThreshold(Column(df, "severity"), Column(df, "sleep"))
    /\ RoundingOf("severity", "sleep") = 1
    /\ Reported("severity", "sleep")

\* generate_clustering_recommendations of the current analyzer has returned
RecommendationsDone == pc = "summary"

\* the values of a column strictly outside its Tukey fences
StrictlyOutside(col) ==
    LET Q1 == Quantile(col, 1)
        Q3 == Quantile(col, 3)
        IQR == RSub(Q3, Q1)
        lower == RSub(Q1, RScale(IQR, 3, 2))
        upper == RAdd(Q3, RScale(IQR, 3, 2))
    IN  {i \in 1..Len(col) : RLess(col[i], lower) \/ RLess(upper, col[i])}

OutlierColumn == [i \in 1..9 |-> RInt(<<1, 2, 2, 3, 3, 3, 4, 4, 100>>[i])]

\* C7: for every feature column the outlier count is the number of values
\* strictly below Q1 - 1.5*IQR or strictly above Q3 + 1.5*IQR (a value on a
\* fence is not an outlier); "no significant outliers" is printed if and only
\* if every feature's count is 0; and in the column 1,2,2,3,3,3,4,4,100,
\* whose fences are -1 and 7, exactly the value 100 is flagged.
C7_OutlierCounts ==
    RecommendationsDone =>
        /\ Len(report.outlier_counts) = Len(feature_cols)
        /\ \A k \in 1..Len(feature_cols) :
               LET col == FeatureColumn(features_df, feature_cols[k])
               IN  /\ report.outlier_counts[k] = Cardinality(StrictlyOutside(col))
                   /\ col = OutlierColumn =>
                          /\ Quantile(col, 1) = RInt(2) /\ Quantile(col, 3) = RInt(4)
                          /\ report.outlier_counts[k] = 1
                          /\ StrictlyOutside(col) = {9}
        /\ report.no_outliers
               <=> \A k \in 1..Len(feature_cols) : report.outlier_counts[k] = 0

\* recommendations were made for the table whose exercise column is
\* 1,2,2,3,3,3,4,4,100 (one outlier) and whose severity column is constant
\* (every value on both fences, none an outlier)
C7_Witness ==
    /\ RecommendationsDone
    /\ FeatureColumn(features_df, "exercise") = OutlierColumn
    /\ report.outlier_counts[4] = 1
    /\ report.outlier_counts[1] = 0
    /\ ~report.no_outliers

-----------------------------------------------------------------------------
(* Properties of the recommended K range, under SpecKRange *)

\* C6: for every sample count n, k_min = max(2, floor(sqrt(n/2))) with n/2 a
\* real division, and k_max = min(10, floor(sqrt(n))); for n = 100 this gives
\* k_min = 7 and k_max = 10.  (a = floor(sqrt(n/2)) iff 2a^2 <= n < 2(a+1)^2.)
C6_KRangeFormula ==
    pc = "k_done" =>
        /\ \E a \in 0..kn :
               /\ 2 * a * a <= kn /\ kn < 2 * (a + 1) * (a + 1)
               /\ krange.k_min = (IF a > 2 THEN a ELSE 2)
        /\ \E b \in 0..kn :
               /\ b * b <= kn /\ kn < (b + 1) * (b + 1)
               /\ krange.k_max = (IF b < 10 THEN b ELSE 10)
        /\ kn = 100 => krange.k_min = 7 /\ krange.k_max = 10

\* the range was computed for 100 samples
C6_Witness == pc = "k_done" /\ kn = 100 /\ krange = [k_min |-> 7, k_max |-> 10]

\* C9: the recommended range is well-formed (k_min <= k_max) exactly for
\* 4 <= n <= 241: for n in 1..3 k_max is 1 and k_min is 2, and for n >= 242
\* k_min is at least 11 while k_max is 10, so the printed range is inverted.
C9_KRangeWellFormed ==
    pc = "k_done" =>
        /\ (krange.k_min <= krange.k_max) <=> (4 <= kn /\ kn <= 241)
        /\ kn \in 1..3 => krange.k_max = 1 /\ krange.k_min = 2
        /\ kn >= 242 => krange.k_min >= 11 /\ krange.k_max = 10

\* the range was computed for 242 samples and is inverted
C9_Witness == pc = "k_done" /\ kn = 242 /\ krange.k_min = 11 /\ krange.k_max = 10

-----------------------------------------------------------------------------
(* Properties of the reporters called in any order, under SpecAPI *)

\* the columns whose presence or cells differ between two tables of equal length
ChangedColumns(d, e) ==
    {c \in d.columns \cup e.columns :
        \/ c \notin d.columns
        \/ c \notin e.columns
        \/ \E i \in 1..Len(d.rows) : d.rows[i][c] # e.rows[i][c]}

\* the columns a reporter may write
WritesOf(stage) ==
    IF stage = "demographics" THEN {"age_group"}
    ELSE IF stage = "temporal" THEN {"hour", "day_of_week", "month"}
    ELSE {}

\* what one reporter call on a loaded table may change
ReporterFrame ==
    pc = "api_ready" =>
        /\ Len(df'.rows) = Len(df.rows)
        /\ ChangedColumns(df, df') \subseteq WritesOf(calls'[1].stage)
        /\ ChangedColumns(df, df') \cap (InputCols \cup LoadDerivedCols) = {}
        /\ calls'[1].stage \in {"basic", "correlations", "features", "recommend"}
               => df' = df

\* C8: after a successful load no reporter, in any sequence of reporter
\* calls, changes the number or order of the records, the value of any input
\* column or of a load-derived column; the only changes are age_group by
\* analyze_demographics and hour, day_of_week, month by
\* analyze_temporal_patterns; the other four reporters leave the table unchanged.
C8_ReportersOnlyAddDerivedColumns == [][ReporterFrame]_vars

\* analyze_clustering_features has just returned its table, after both
\* analyze_demographics and analyze_temporal_patterns had extended self.df
C8_Witness ==
    /\ pc = "api_ready"
    /\ calls[1].stage = "features" /\ calls[1].ok
    /\ ReporterDerivedCols \subseteq df.columns
    /\ Len(df.rows) > 1

\* C10: once an analyzer is constructed, the reporting methods may be called
\* in any order and any number of times and none of them ever reads a derived
\* column that has not been created: the load-derived columns are there from
\* construction on, a KeyError never names a derived column, and the
\* recommendations are computed from the returned features table alone.
C10_ReportersIndependent ==
    pc = "api_ready" =>
        /\ LoadDerivedCols \subseteq df.columns
        /\ exc.type = "KeyError" => exc.key \notin DerivedCols
        /\ calls[1].stage = "recommend" =>
               /\ calls[1].ok
               /\ report.k_min = k_min_of(Len(features_df.rows))
               /\ Len(report.outlier_counts) = Len(features_df.columns)

\* analyze_temporal_patterns was called, and succeeded, as the third call on
\* an analyzer on which analyze_demographics has never been called
C10_Witness ==
    /\ pc = "api_ready"
    /\ ncalls = 3
    /\ calls[1].stage = "temporal" /\ calls[1].ok
    /\ "age_group" \notin df.columns
    /\ features_df # NoFeatures

=============================================================================
